---------------------------- MODULE Spec2Model ----------------------------
(***************************************************************************)
(* Light Pilot (LightPilotforBlender.py): a modal operator that binds the  *)
(* 3D viewport to a light.  The model keeps the module globals, the scene  *)
(* custom property, the viewport fields the add-on reads and writes, the   *)
(* viewport's view matrix, the transforms of the objects the operator can  *)
(* be bound to and the window manager's list of modal handlers.            *)
(*                                                                         *)
(* Geometry is abstracted to one axis.  Lengths are integers in units of   *)
(* 0.001, a rotation is a pair (yaw, roll): yaw selects the direction the  *)
(* view looks along the axis, roll is the twist about that direction.      *)
(*                                                                         *)
(* What the host (Blender) does around the add-on's code:                  *)
(*  - it computes the view matrix from view_location, view_rotation,       *)
(*    view_distance and view_perspective when the viewport is redrawn,     *)
(*    not when one of these fields is written;                             *)
(*  - context.region_data belongs to the region: it is the viewport's      *)
(*    region data in the window region of a 3D viewport and None in its    *)
(*    other regions and in every other area;                               *)
(*  - writing False to space_data.use_local_camera binds the viewport to   *)
(*    the scene's camera;                                                  *)
(*  - a call that raises keeps the writes it made before the raise, and    *)
(*    the host drops the handler of a modal call that raised.              *)
(***************************************************************************)
EXTENDS Integers, Sequences, FiniteSets, TLC

\* ------------------------------------------------------------------ bounds
\* Coordinate of the near pose the user navigates to and of the point light
\* before any piloting (the far pose and the directional light are at 0).
MaxCoord == 1
\* Largest number of successful Start commands in a run.
MaxStarts == 2

\* ------------------------------------------------------- program constants
\* view_distance set by invoke: 0.001, one unit of the model's grid.
PilotDistance == 1

NoneVal == "None"

\* bpy.data.objects: two lights, the camera object and a mesh.
LightNames == {"Key", "Point"}
CameraNames == {"Camera"}
OtherNames == {"Cube"}
AllNames == LightNames \cup CameraNames \cup OtherNames

\* Object.type
ObjType(name) ==
    IF name \in LightNames THEN "LIGHT"
    ELSE IF name \in CameraNames THEN "CAMERA"
    ELSE "MESH"

\* hasattr(obj.data, "type"): Light.type and Camera.type exist, a mesh has
\* no such attribute.
HasDataType(name) == ObjType(name) \in {"LIGHT", "CAMERA"}

\* The objects whose data has a type: those invoke runs to its end on.
TypedNames == {n \in AllNames : HasDataType(n)}

Rotations == [yaw : {0, 1}, roll : {0, 1}]
Perspectives == {"PERSP", "ORTHO"}
Events == {[type |-> "ESC", value |-> "PRESS"],
           [type |-> "ESC", value |-> "RELEASE"],
           [type |-> "MOUSEMOVE", value |-> "NOTHING"]}

ViewKeys == {"view_location", "view_rotation", "view_distance",
             "view_perspective", "use_local_camera", "camera"}

\* previous_view_state = {} : the dict with no keys.
EmptyDict == [k \in {} |-> NoneVal]

\* ---------------------------------------------------------------- state
VARIABLES
    is_piloting,          \* global is_piloting
    piloted_light,        \* global piloted_light (an object's name, or None)
    previous_view_state,  \* global previous_view_state (a dict)
    scene_label,          \* context.scene["lightpilot_active_light"], None = key absent
    handlers,             \* window manager's modal handlers: light_object of each
    view,                 \* region_data / space_data fields of the viewport
    view_matrix,          \* region_data.view_matrix, as the last redraw left it
    scene_camera,         \* context.scene.camera (a camera object's name, or None)
    objects,              \* names in bpy.data.objects
    lights,               \* transform and data type of the lights and the camera object
    pre_start,            \* history: the viewport just before the last Start from Idle
    exit_pending,         \* history: exit_pilot executed, no modal call since
    stops,                \* history: modal calls that ran cleanup, in a row, just before now (at most 2)
    starts,               \* history: successful invoke calls so far
    last_call             \* history: the pilot_modal call (invoke or modal) the last step made

vars == <<is_piloting, piloted_light, previous_view_state, scene_label,
          handlers, view, view_matrix, scene_camera, objects, lights,
          pre_start, exit_pending, stops, starts, last_call>>

\* The program state as one value, so that handlers are functions on it.
Cur == [is_piloting |-> is_piloting,
        piloted_light |-> piloted_light,
        previous_view_state |-> previous_view_state,
        scene_label |-> scene_label,
        handlers |-> handlers,
        view |-> view,
        view_matrix |-> view_matrix,
        scene_camera |-> scene_camera,
        objects |-> objects,
        lights |-> lights]

\* The next program state is the value s, computed once.
Apply(s) ==
    \E t \in {s} :
        /\ is_piloting' = t.is_piloting
        /\ piloted_light' = t.piloted_light
        /\ previous_view_state' = t.previous_view_state
        /\ scene_label' = t.scene_label
        /\ handlers' = t.handlers
        /\ view' = t.view
        /\ view_matrix' = t.view_matrix
        /\ scene_camera' = t.scene_camera
        /\ objects' = t.objects
        /\ lights' = t.lights

\* What last_call records: no call; a call of invoke with its light_object
\* and its result; a call of modal with its light_object, the test that
\* decided its return and its result.
NoCall ==
    [op |-> "none", light_object |-> "none", branch |-> "none", result |-> "none"]
InvokeCall(light_object, result) ==
    [op |-> "invoke", light_object |-> light_object,
     branch |-> "none", result |-> result]
ModalCall(light_object, branch, result) ==
    [op |-> "modal", light_object |-> light_object,
     branch |-> branch, result |-> result]

\* ------------------------------------------------------------ the context
\* The context of a call: the type of its area (None: no area), the region
\* data of its region (None outside the window region of a 3D viewport)
\* and the camera of its scene.
MakeContext(area, region_data, camera) ==
    [area |-> area, region_data |-> region_data, scene_camera |-> camera]

\* context.region_data is not None.
HasRegionData(context) == context.region_data # NoneVal

\* The context of the window region of the 3D viewport.
ViewportContext(s) == MakeContext("VIEW_3D", "RegionView3D", s.scene_camera)

\* Contexts with no region data: a region of the 3D viewport other than
\* its window region; the area after it has become another editor;
\* no area at all after the viewport was closed.
OtherContexts(s) ==
    {MakeContext(a, NoneVal, s.scene_camera) : a \in {"VIEW_3D", "TEXT_EDITOR", NoneVal}}

\* The contexts and events a modal call is made with: every event in the
\* window region of the 3D viewport, one event in each other context.
TickInputs(s) ==
    {[context |-> ViewportContext(s), event |-> e] : e \in Events}
    \cup {[context |-> c, event |-> [type |-> "MOUSEMOVE", value |-> "NOTHING"]] :
              c \in OtherContexts(s)}

\* The contexts an operator is invoked in: the window region of the 3D
\* viewport and a region of it that has no region data.
StartContexts(s) ==
    {ViewportContext(s), MakeContext("VIEW_3D", NoneVal, s.scene_camera)}

\* ------------------------------------------------------- host geometry
\* Direction the view (or a light) looks along the axis.
Forward(q) == IF q.yaw = 0 THEN -1 ELSE 1

\* Vector.to_track_quat('-Z', 'Y'): the rotation looking along forward with
\* the canonical up axis; the twist about the direction is not kept.
to_track_quat(forward) == [yaw |-> IF forward = 1 THEN 1 ELSE 0, roll |-> 0]

\* The rotation modes of an object: quaternion, axis-angle and the Euler
\* orders (one of the six stands for all).
EulerOrders == {"XYZ"}
RotationModes == {"QUATERNION", "AXIS_ANGLE"} \cup EulerOrders

\* Quaternion.to_euler(order): an Euler of that order, a ValueError when
\* order is no Euler order.
to_euler(q, order) ==
    IF order \in EulerOrders
    THEN [order |-> order, yaw |-> q.yaw, roll |-> q.roll]
    ELSE "ValueError"

\* Euler.to_quaternion().
to_quaternion(e) == [yaw |-> e.yaw, roll |-> e.roll]

\* The view matrix the host computes at a redraw, kept as the translation
\* and rotation of its inverse: in perspective the viewer's eye is
\* view_distance behind the pivot along the view direction; in an
\* orthographic view the host leaves the distance out of the matrix and
\* the translation is the pivot.
ViewMatrix(v) ==
    [translation |->
        IF v.view_perspective = "PERSP"
        THEN v.view_location - Forward(v.view_rotation) * v.view_distance
        ELSE v.view_location,
     rotation |-> v.view_rotation]

\* view_matrix.inverted().translation
ViewerLocation(m) == m.translation

\* -Z row of the view matrix, normalized.
ViewForward(m) == Forward(m.rotation)

\* matrix_world.to_quaternion() of an unparented object: the rotation field
\* its rotation mode selects.
WorldQuaternion(l) ==
    IF l.rotation_mode = "QUATERNION" THEN l.rotation_quaternion
    ELSE IF l.rotation_mode = "AXIS_ANGLE" THEN l.rotation_axis_angle
    ELSE to_quaternion(l.rotation_euler)

\* Mutant of IsDirectional: the kind test lets point lights through.
IsDirectionalAnyKind(type) == type \in {"SUN", "SPOT", "AREA", "POINT"}

IsDirectional(type) == type \in {"SUN", "SPOT", "AREA"}


\* ------------------------------------------------------------ handlers
\* Keys of the snapshot that restore_view_state writes back: every key
\* present, the camera only when the saved value is truthy.
RestoredKeys(s) ==
    {k \in DOMAIN s.previous_view_state :
        k = "camera" => s.previous_view_state[k] # NoneVal}

\* space_data.camera after the write of use_local_camera (l.105): writing
\* False binds the scene's camera, writing True leaves the camera.
ReboundCamera(s, context) ==
    IF "use_local_camera" \in DOMAIN s.previous_view_state
       /\ ~s.previous_view_state["use_local_camera"]
    THEN context.scene_camera
    ELSE s.view.camera

\* restore_view_state: write the saved fields back, then clear the dict.
\* An empty dict is falsy: nothing is written and nothing is cleared.  The
\* view matrix stays as the last redraw left it.
restore_view_state(s, context) ==
    IF DOMAIN s.previous_view_state = {} THEN s
    ELSE [s EXCEPT
            !.view = [k \in ViewKeys |->
                        IF k \in RestoredKeys(s)
                        THEN s.previous_view_state[k]
                        ELSE IF k = "camera" THEN ReboundCamera(s, context)
                        ELSE s.view[k]],
            !.previous_view_state = EmptyDict]

\* cleanup called with a snapshot to restore and no region_data:
\* restore_view_state raises at its first write (l.103).
CleanupRaises(s, context) ==
    DOMAIN s.previous_view_state # {} /\ ~HasRegionData(context)

\* cleanup: reset the globals, restore the view, delete the scene
\* property.  When restore_view_state raises, only the globals were reset.
cleanup(s, context) ==
    LET reset == [s EXCEPT !.is_piloting = FALSE,
                           !.piloted_light = NoneVal]
    IN  IF CleanupRaises(s, context)
        THEN reset
        ELSE [restore_view_state(reset, context) EXCEPT !.scene_label = NoneVal]

\* The object's rotation as the view rotation invoke sets: for a
\* directional light the rotation looking along its forward axis, for any
\* other object rotation_quaternion in quaternion mode and the converted
\* rotation_euler in every other mode.
InvokeRotation(l) ==
    IF IsDirectional(l.type)
    THEN to_track_quat(Forward(WorldQuaternion(l)))
    ELSE IF l.rotation_mode = "QUATERNION"
         THEN l.rotation_quaternion
         ELSE to_quaternion(l.rotation_euler)

\* Location of an object of the scene; the mesh stands at MaxCoord.
ObjLocation(s, name) ==
    IF name \in DOMAIN s.lights THEN s.lights[name].location ELSE MaxCoord

\* What invoke ends with: CANCELLED when the name is not in
\* bpy.data.objects; an AttributeError at context.region_data.view_location
\* (l.127) when the context has no region data; an AttributeError at
\* light_obj.data.type (l.149) when the object's data has no type;
\* RUNNING_MODAL otherwise, whatever the object's type.
InvokeResult(s, context, light_object) ==
    IF light_object \notin s.objects THEN "CANCELLED"
    ELSE IF ~HasRegionData(context) THEN "EXCEPTION"
    ELSE IF ~HasDataType(light_object) THEN "EXCEPTION"
    ELSE "RUNNING_MODAL"

\* invoke: with no region data the first read of the snapshot raises and
\* nothing is changed.  Otherwise: snapshot the view and move the view onto
\* the object (l.126-146), the write of use_local_camera binding the
\* scene's camera; then, for an object whose data has a type, set the view
\* rotation, the globals and the scene property and register the modal
\* handler.  For any other object the call raises at l.149 and the writes
\* made so far stay.  The view matrix stays as the last redraw left it.
invoke(s, context, light_object) ==
    IF light_object \notin s.objects \/ ~HasRegionData(context)
    THEN s
    ELSE LET moved ==
                [s EXCEPT
                    !.previous_view_state = [k \in ViewKeys |-> s.view[k]],
                    !.view = [s.view EXCEPT
                                !.view_perspective = "PERSP",
                                !.use_local_camera = FALSE,
                                !.camera = context.scene_camera,
                                !.view_location = ObjLocation(s, light_object),
                                !.view_distance = PilotDistance]]
         IN  IF ~HasDataType(light_object)
             THEN moved
             ELSE [moved EXCEPT
                      !.view.view_rotation = InvokeRotation(s.lights[light_object]),
                      !.is_piloting = TRUE,
                      !.piloted_light = light_object,
                      !.scene_label = light_object,
                      !.handlers = Append(s.handlers, light_object)]

\* modal raises at to_euler (l.67): a directional light whose rotation mode
\* is neither QUATERNION nor an Euler order.
SyncRaises(l) ==
    /\ IsDirectional(l.type)
    /\ l.rotation_mode # "QUATERNION"
    /\ l.rotation_mode \notin EulerOrders

\* The part of modal that writes the eye transform of the view matrix m
\* onto the object: the location (l.50-51), then for a directional light
\* the rotation in the field the rotation mode selects (l.54-67).  When
\* to_euler raises the location has been written and no rotation is.
SyncLight(l, m) ==
    LET moved == [l EXCEPT !.location = ViewerLocation(m)]
        quat == to_track_quat(ViewForward(m))
    IN  IF IsDirectional(l.type)
        THEN IF l.rotation_mode = "QUATERNION"
             THEN [moved EXCEPT !.rotation_quaternion = quat]
             ELSE IF l.rotation_mode \in EulerOrders
             THEN [moved EXCEPT !.rotation_euler = to_euler(quat, l.rotation_mode)]
             ELSE moved
        ELSE moved

IsCancel(event) == event.type = "ESC" /\ event.value = "PRESS"

\* The test that decides where this modal call returns or raises: the flag
\* is false (the area is then not looked at), there is no area, the area is
\* not a 3D viewport, the object is missing, the context has no region
\* data, to_euler rejects the rotation mode, the event is the cancel key
\* press, or none of them.
ModalBranch(s, context, light_object, event) ==
    IF ~s.is_piloting THEN "inactive"
    ELSE IF context.area = NoneVal THEN "no_area"
    ELSE IF context.area # "VIEW_3D" THEN "invalid_context"
    ELSE IF light_object \notin s.objects THEN "missing"
    ELSE IF ~HasRegionData(context) THEN "no_region_data"
    ELSE IF SyncRaises(s.lights[light_object]) THEN "bad_rotation_mode"
    ELSE IF IsCancel(event) THEN "cancel"
    ELSE "sync"

\* Whether this modal call reaches cleanup.
ModalCleans(s, context, light_object, event) ==
    ModalBranch(s, context, light_object, event)
        \in {"inactive", "invalid_context", "cancel"}

\* Whether this modal call raises: at context.area.type (l.39) when the
\* flag is true and there is no area, at context.region_data.view_matrix
\* (l.48), at to_euler (l.67), or inside cleanup.
ModalRaises(s, context, light_object, event) ==
    \/ ModalBranch(s, context, light_object, event)
          \in {"no_area", "no_region_data", "bad_rotation_mode"}
    \/ /\ ModalCleans(s, context, light_object, event)
       /\ CleanupRaises(s, context)

ModalResult(s, context, light_object, event) ==
    IF ModalRaises(s, context, light_object, event) THEN "EXCEPTION"
    ELSE IF ModalCleans(s, context, light_object, event) THEN "FINISHED"
    ELSE "PASS_THROUGH"

\* modal: one call of the handler registered for light_object.  The raises
\* at l.39 and l.48 come before anything is written; the raise at l.67
\* comes after the location was written.
modal(s, context, light_object, event) ==
    LET branch == ModalBranch(s, context, light_object, event)
        synced == [s EXCEPT !.lights[light_object] =
                               SyncLight(s.lights[light_object], s.view_matrix)]
    IN  IF branch \in {"no_area", "missing", "no_region_data"} THEN s
        ELSE IF branch \in {"inactive", "invalid_context"} THEN cleanup(s, context)
        ELSE IF branch = "cancel" THEN cleanup(synced, context)
        ELSE synced

\* LIGHTPILOT_OT_pilot_light.poll and LIGHTPILOT_OT_exit_pilot.poll
PilotPoll(s, obj) == obj # NoneVal /\ obj \in s.objects /\ ObjType(obj) = "LIGHT"
ExitPoll(s) == s.is_piloting

\* Mutant of exit_execute: the command cleans up itself.
exit_execute_cleans(s) == cleanup(s, ViewportContext(s))

\* LIGHTPILOT_OT_exit_pilot.execute
exit_execute(s) == [s EXCEPT !.is_piloting = FALSE]

\* unregister(): the classes are unregistered and is_piloting is set to
\* False (l.375-376).  Whether unregistering the modal operator's class
\* ends its running handlers is the host's choice: ends says which.
unregister(s, ends) ==
    [s EXCEPT !.is_piloting = FALSE,
              !.handlers = IF ends THEN <<>> ELSE s.handlers]

\* The session is Idle: nothing of a session is left.
Idle(s) ==
    /\ ~s.is_piloting
    /\ s.piloted_light = NoneVal
    /\ DOMAIN s.previous_view_state = {}
    /\ s.scene_label = NoneVal

RemoveAt(seq, i) == SubSeq(seq, 1, i - 1) \o SubSeq(seq, i + 1, Len(seq))


\* ------------------------------------------------------------- the scene
FarDistance == 2 * PilotDistance

\* Where the user's navigation puts the view: pivot, rotation and distance.
FarPose ==
    [view_location |-> 0, view_rotation |-> [yaw |-> 0, roll |-> 0],
     view_distance |-> FarDistance]
NearPose ==
    [view_location |-> MaxCoord, view_rotation |-> [yaw |-> 1, roll |-> 1],
     view_distance |-> PilotDistance]

\* What the user sets projection, local-camera flag and bound camera to.
PlainOptions ==
    [view_perspective |-> "PERSP", use_local_camera |-> FALSE, camera |-> NoneVal]
CameraOptions ==
    [view_perspective |-> "ORTHO", use_local_camera |-> TRUE, camera |-> "Camera"]
LocalOptions ==
    [view_perspective |-> "PERSP", use_local_camera |-> TRUE, camera |-> NoneVal]

MakeView(p, o) ==
    [view_location |-> p.view_location,
     view_rotation |-> p.view_rotation,
     view_distance |-> p.view_distance,
     view_perspective |-> o.view_perspective,
     use_local_camera |-> o.use_local_camera,
     camera |-> o.camera]

\* An object as the scene holds it before any piloting: its data type, its
\* rotation mode, its location and its three rotation fields.
InitLight(type, mode, loc) ==
    [type |-> type,
     rotation_mode |-> mode,
     location |-> loc,
     rotation_quaternion |-> [yaw |-> 1, roll |-> 1],
     rotation_axis_angle |-> [yaw |-> 1, roll |-> 1],
     rotation_euler |-> [order |-> "XYZ", yaw |-> 1, roll |-> 1]]

\* The rotation mode of the point light: Euler unless the directional
\* light has it.
OtherMode(m) == IF m \in EulerOrders THEN "QUATERNION" ELSE "XYZ"

\* The scene: a directional light "Key" in rotation mode m, a point light
\* "Point" in another mode and the camera object "Camera", a perspective
\* camera in Euler mode.
Scene(dir, m) ==
    [n \in TypedNames |->
        IF n = "Key" THEN InitLight(dir, m, 0)
        ELSE IF n = "Point" THEN InitLight("POINT", OtherMode(m), MaxCoord)
        ELSE InitLight("PERSP", "XYZ", MaxCoord)]

\* The view the user changes to during a session: the far pose seen
\* orthographically through the local camera.
UserViews == {MakeView(FarPose, CameraOptions)}

\* The starting points.  The far view bound to the scene's camera, which
\* is none, over a scene whose directional light is a sun in Euler mode;
\* the near view with a local camera, the scene having none, over a scene
\* with no point light whose directional light is a spot in quaternion
\* mode; the far view with the local-camera flag on and no camera bound,
\* the scene having one, over a scene whose directional light is an area
\* light in axis-angle mode.
InitStates ==
    {[view |-> MakeView(FarPose, PlainOptions), scene_camera |-> NoneVal,
      lights |-> Scene("SUN", "XYZ"), objects |-> AllNames],
     [view |-> MakeView(NearPose, CameraOptions), scene_camera |-> NoneVal,
      lights |-> Scene("SPOT", "QUATERNION"), objects |-> AllNames \ {"Point"}],
     [view |-> MakeView(FarPose, LocalOptions), scene_camera |-> "Camera",
      lights |-> Scene("AREA", "AXIS_ANGLE"), objects |-> AllNames]}

Init ==
    /\ is_piloting = FALSE
    /\ piloted_light = NoneVal
    /\ previous_view_state = EmptyDict
    /\ scene_label = NoneVal
    /\ handlers = <<>>
    /\ \E c \in InitStates :
          /\ view = c.view /\ scene_camera = c.scene_camera
          /\ lights = c.lights /\ objects = c.objects
    /\ view_matrix = ViewMatrix(view)
    /\ pre_start = view
    /\ exit_pending = FALSE
    /\ stops = 0
    /\ starts = 0
    /\ last_call = NoCall

\* ---------------------------------------------------------------- actions
\* No session and no handler: the next Start is a Start from Idle.
Quiet(s) == Idle(s) /\ s.handlers = <<>>

\* light.pilot with obj the active object, in context: poll, then execute,
\* which invokes light.pilot_modal with the object's name.
Start(obj, context) ==
    /\ PilotPoll(Cur, obj)
    /\ starts < MaxStarts
    /\ Apply(invoke(Cur, context, obj))
    /\ pre_start' = IF Quiet(Cur) THEN view ELSE pre_start
    /\ stops' = 0
    /\ starts' = IF InvokeResult(Cur, context, obj) = "RUNNING_MODAL"
                 THEN starts + 1 ELSE starts
    /\ last_call' = InvokeCall(obj, InvokeResult(Cur, context, obj))
    /\ UNCHANGED exit_pending

\* light.exit_pilot: poll, then execute.
ExitPilot ==
    /\ ExitPoll(Cur)
    /\ Apply(exit_execute(Cur))
    /\ exit_pending' = TRUE
    /\ stops' = 0
    /\ last_call' = NoCall
    /\ UNCHANGED <<pre_start, starts>>

\* The window manager hands an event to the i-th modal handler, in
\* context; a handler that returns FINISHED or raises is removed.
Tick(i, context, event) ==
    /\ i \in 1 .. Len(handlers)
    /\ LET s == modal(Cur, context, handlers[i], event)
           res == ModalResult(Cur, context, handlers[i], event)
           t == [s EXCEPT !.handlers =
                    IF res \in {"FINISHED", "EXCEPTION"}
                    THEN RemoveAt(handlers, i) ELSE handlers]
       IN  /\ Apply(t)
           /\ stops' = IF ModalCleans(Cur, context, handlers[i], event)
                       THEN (IF stops < 2 THEN stops + 1 ELSE stops)
                       ELSE 0
           /\ pre_start' = IF Quiet(t) THEN t.view ELSE pre_start
           /\ last_call' = ModalCall(handlers[i],
                                     ModalBranch(Cur, context, handlers[i], event), res)
    /\ exit_pending' = FALSE
    /\ UNCHANGED starts

\* The user changes the viewport while a handler runs: pivot, rotation and
\* distance by navigating, and with them projection, local-camera flag and
\* bound camera.  The view matrix stays as it is until the next redraw.
Navigate(v) ==
    /\ handlers # <<>>
    /\ view' = v
    /\ view' # view
    /\ UNCHANGED view_matrix
    /\ stops' = 0
    /\ last_call' = NoCall
    /\ UNCHANGED <<is_piloting, piloted_light, previous_view_state, scene_label,
                   handlers, scene_camera, objects, lights,
                   pre_start, exit_pending, starts>>

\* The host redraws the viewport after the add-on or the user wrote its
\* fields: the view matrix is computed anew.
Redraw ==
    /\ view_matrix # ViewMatrix(view)
    /\ view_matrix' = ViewMatrix(view)
    /\ stops' = 0
    /\ last_call' = NoCall
    /\ UNCHANGED <<is_piloting, piloted_light, previous_view_state, scene_label,
                   handlers, view, scene_camera, objects, lights,
                   pre_start, exit_pending, starts>>

\* The user deletes the light being piloted while its handler runs.
DeleteLight(name) ==
    /\ handlers # <<>>
    /\ name \in objects
    /\ name = piloted_light
    /\ objects' = objects \ {name}
    /\ stops' = 0
    /\ last_call' = NoCall
    /\ UNCHANGED <<is_piloting, piloted_light, previous_view_state, scene_label,
                   handlers, view, view_matrix, scene_camera, lights,
                   pre_start, exit_pending, starts>>

\* The add-on is disabled, in any state; it is enabled again before the
\* next command.
Unregister(ends) ==
    /\ Apply(unregister(Cur, ends))
    /\ stops' = 0
    /\ last_call' = NoCall
    /\ UNCHANGED <<pre_start, exit_pending, starts>>

StartStep ==
    \E obj \in AllNames \cup {NoneVal} : \E context \in StartContexts(Cur) :
        Start(obj, context)
UnregisterStep == \E ends \in BOOLEAN : Unregister(ends)
TickStep ==
    \E i \in 1 .. MaxStarts : \E in \in TickInputs(Cur) :
        Tick(i, in.context, in.event)
NavigateStep == \E v \in UserViews : Navigate(v)
\* The light the user deletes is the directional one.
DeleteLightStep == DeleteLight("Key")

Next ==
    \/ StartStep
    \/ ExitPilot
    \/ TickStep
    \/ NavigateStep
    \/ Redraw
    \/ DeleteLightStep
    \/ UnregisterStep

Spec == Init /\ [][Next]_vars

\* ------------------------------------------------ round-trip harness
\* Start from Idle followed at once by a direct call of cleanup, over every
\* viewport state, every scene camera it can have and the scenes of Init.
AllViews ==
    [view_location : 0 .. MaxCoord,
     view_rotation : Rotations,
     view_distance : {PilotDistance, FarDistance},
     view_perspective : Perspectives,
     use_local_camera : BOOLEAN,
     camera : CameraNames \cup {NoneVal}]

\* The scene cameras a viewport can be found with: a viewport with
\* use_local_camera off is bound to the scene's camera, one with the flag
\* on has a camera of its own and the scene's is any.
SceneCameras(v) ==
    IF v.use_local_camera THEN CameraNames \cup {NoneVal} ELSE {v.camera}

InitRoundTrip ==
    /\ is_piloting = FALSE
    /\ piloted_light = NoneVal
    /\ previous_view_state = EmptyDict
    /\ scene_label = NoneVal
    /\ handlers = <<>>
    /\ view \in AllViews
    /\ view_matrix = ViewMatrix(view)
    /\ scene_camera \in SceneCameras(view)
    /\ \E c \in InitStates : lights = c.lights
    /\ objects = AllNames
    /\ pre_start = view
    /\ exit_pending = FALSE
    /\ stops = 0
    /\ starts = 0
    /\ last_call = NoCall

StartFromIdle == Quiet(Cur) /\ StartStep

\* cleanup called in the viewport right after invoke returned, before any
\* modal call.
StopNow ==
    /\ handlers # <<>>
    /\ stops = 0
    /\ Apply(cleanup(Cur, ViewportContext(Cur)))
    /\ stops' = 1
    /\ last_call' = NoCall
    /\ UNCHANGED <<pre_start, exit_pending, starts>>

NextRoundTrip ==
    \/ StartFromIdle
    \/ StopNow

SpecRoundTrip == InitRoundTrip /\ [][NextRoundTrip]_vars

\* ------------------------------------------------ failed-start harness
\* Names a direct call of light.pilot_modal can carry besides the scene's.
MissingNames == {"Ghost"}

\* bpy.ops.light.pilot_modal('INVOKE_DEFAULT', light_object=name) in
\* context: invoke with any name, no poll before it.
PilotModal(name, context) ==
    /\ InvokeResult(Cur, context, name) = "RUNNING_MODAL" => starts < MaxStarts
    /\ Apply(invoke(Cur, context, name))
    /\ last_call' = InvokeCall(name, InvokeResult(Cur, context, name))
    /\ stops' = 0
    /\ starts' = IF InvokeResult(Cur, context, name) = "RUNNING_MODAL"
                 THEN starts + 1 ELSE starts
    /\ pre_start' = IF Quiet(Cur) THEN view ELSE pre_start
    /\ UNCHANGED exit_pending

PilotModalStep ==
    \E name \in AllNames \cup MissingNames : \E context \in StartContexts(Cur) :
        PilotModal(name, context)

\* Starts, exit requests, deletions of the piloted light and direct calls
\* of the modal operator with any name, from every viewport state.
NextFailedStart ==
    \/ StartStep
    \/ ExitPilot
    \/ DeleteLightStep
    \/ PilotModalStep

SpecFailedStart == InitRoundTrip /\ [][NextFailedStart]_vars

\* ---------------------------------------------------------------- claims
\* The claims below are about the call a step makes: in every
\* specification only Start and PilotModal leave last_call with op
\* "invoke" and only Tick leaves it with op "modal", and they record there
\* the call's light_object, the test that decided a modal call's return
\* and the call's result.

\* A modal call that ran cleanup.
CleanupStep ==
    /\ last_call'.op = "modal"
    /\ last_call'.branch \in {"inactive", "invalid_context", "cancel"}

\* C1: a Start issued while the active flag is true leaves the target light,
\* the saved snapshot, the UI label and the running tick loops unchanged.
C1_DoubleStartRejected ==
    [][(is_piloting /\ last_call'.op = "invoke") =>
        UNCHANGED <<piloted_light, previous_view_state, scene_label, handlers>>]_vars

\* C2: at most one modal tick loop is registered at a time.
C2_AtMostOneLoop == Len(handlers) <= 1

\* C3: when a session started from Idle terminates, every viewport field has
\* the value it had just before Start, and the session state is cleared.
\* Stated for the session whose handler is the only one registered: it was
\* started from Idle and no other Start has run since; and for a modal
\* call that returned FINISHED, where cleanup ran to its end.
C3_TerminationRestores ==
    [][(/\ ~Idle(Cur) /\ Len(handlers) = 1 /\ CleanupStep
        /\ last_call'.result = "FINISHED") =>
        (view' = pre_start /\ Idle(Cur)')]_vars

\* C4: Start from Idle on an existing light followed at once by Stop leaves
\* the viewport as it was before Start: every field is written back with its
\* pre-Start value, or was not touched by Start and is not touched by Stop.
C4_RoundTrip ==
    [][StopNow =>
        /\ view' = pre_start
        /\ \A k \in ViewKeys \ RestoredKeys(Cur) :
              view[k] = pre_start[k] /\ view'[k] = view[k]]_vars

\* C5: the Tick that follows an Exit command performs Stop(): it returns
\* completion and leaves the session Idle. Stated for a Tick that did not
\* raise.
C5_NextTickStops ==
    [][(/\ exit_pending /\ last_call'.op = "modal"
        /\ last_call'.result # "EXCEPTION") =>
        (Idle(Cur)' /\ Len(handlers') < Len(handlers))]_vars

\* C6: a Tick of a handler whose light is no longer in the scene runs Stop()
\* and reports completion: the session is Idle after it. Stated for a Tick
\* that did not raise.
C6_MissingTargetStops ==
    [][(/\ last_call'.op = "modal"
        /\ last_call'.light_object \notin objects
        /\ last_call'.result # "EXCEPTION") =>
        (Idle(Cur)' /\ Len(handlers') < Len(handlers))]_vars

\* C7: every Tick whose event is an escape key press runs Stop() and reports
\* completion in that Tick.
C7_CancelStops ==
    [][\A i \in 1 .. MaxStarts : \A in \in TickInputs(Cur) :
          (IsCancel(in.event) /\ Tick(i, in.context, in.event)) =>
              (Idle(Cur)' /\ Len(handlers') < Len(handlers))]_vars

\* C8: Start never runs while a snapshot of an earlier Start is still
\* unconsumed, so a captured snapshot is never overwritten.
C8_NoStartOverSnapshot ==
    [][(last_call'.op = "invoke" /\ last_call'.result = "RUNNING_MODAL") =>
        DOMAIN previous_view_state = {}]_vars

\* C9: a Stop() right after a Stop() does not raise, restores nothing and
\* leaves the active flag, target light, snapshot, UI label and every
\* viewport field as the first left them.
C9_StopIdempotent ==
    [][(stops >= 1 /\ CleanupStep) =>
        /\ last_call'.result = "FINISHED"
        /\ RestoredKeys(Cur) = {}
        /\ UNCHANGED <<is_piloting, piloted_light, previous_view_state,
                       scene_label, view, lights, objects>>]_vars

\* C10: a Tick changes a point light's position only, never its quaternion
\* or Euler rotation; a Tick writes a rotation only of a SUN, SPOT or AREA
\* light.
C10_PointOrientationUntouched ==
    [][(lights' # lights /\ last_call'.op = "modal") =>
        \A n \in LightNames :
            /\ lights[n].type = "POINT" =>
                  lights'[n] = [lights[n] EXCEPT !.location = lights'[n].location]
            /\ (\/ lights'[n].rotation_quaternion # lights[n].rotation_quaternion
                \/ lights'[n].rotation_axis_angle # lights[n].rotation_axis_angle
                \/ lights'[n].rotation_euler # lights[n].rotation_euler)
                  => lights[n].type \in {"SUN", "SPOT", "AREA"}]_vars

\* C10 witness: a Tick has just moved the point light, its rotation is as
\* before.
C10_Witness ==
    /\ last_call = ModalCall("Point", "sync", "PASS_THROUGH")
    /\ lights["Point"].type = "POINT"
    /\ lights["Point"].location # MaxCoord
    /\ lights["Point"].rotation_quaternion = [yaw |-> 1, roll |-> 1]
    /\ lights["Point"].rotation_axis_angle = [yaw |-> 1, roll |-> 1]
    /\ lights["Point"].rotation_euler = [order |-> "XYZ", yaw |-> 1, roll |-> 1]

\* C11: after a successful Start(L) from Idle the viewport pivot is L's
\* position, the projection is perspective, the local-camera flag is off,
\* the view distance is the minimal constant, the active flag is true, the
\* target light and the UI label are L, and the bound camera is as before.
C11_StartPostState ==
    [][(/\ last_call'.op = "invoke" /\ last_call'.result = "RUNNING_MODAL"
        /\ last_call'.light_object \in LightNames
        /\ Idle(Cur)) =>
            LET obj == last_call'.light_object
            IN  /\ view'.view_location = lights[obj].location
                /\ view'.view_perspective = "PERSP"
                /\ view'.use_local_camera = FALSE
                /\ view'.view_distance = PilotDistance
                /\ is_piloting'
                /\ piloted_light' = obj
                /\ scene_label' = obj
                /\ view'.camera = view.camera]_vars

\* C12: after a Tick of an active session in a 3D viewport whose light is in
\* the scene, the light's position is the viewport's eye position as that
\* Tick read it from the view matrix, and a SUN, SPOT or AREA light's
\* rotation, in the field its rotation mode selects, is the rotation that
\* looks along the forward axis of that matrix.
C12_TickSyncsLight ==
    [][(/\ last_call'.op = "modal"
        /\ last_call'.branch \in {"bad_rotation_mode", "cancel", "sync"}) =>
            LET n == last_call'.light_object
                quat == to_track_quat(ViewForward(view_matrix))
            IN  /\ lights'[n].location = ViewerLocation(view_matrix)
                /\ lights[n].type \in {"SUN", "SPOT", "AREA"} =>
                      /\ IF lights[n].rotation_mode = "QUATERNION"
                         THEN lights'[n].rotation_quaternion = quat
                         ELSE /\ lights[n].rotation_mode \in EulerOrders
                              /\ lights'[n].rotation_euler =
                                     to_euler(quat, lights[n].rotation_mode)
                      /\ Forward(WorldQuaternion(lights'[n])) =
                              ViewForward(view_matrix)]_vars

\* C13: a Tick of a registered handler whose context area is not a 3D
\* viewport runs Stop() and reports completion: after it the active flag is
\* false, the target, the snapshot and the UI label are cleared, and the
\* handler is gone, the call having returned FINISHED.
C13_InvalidContextStops ==
    [][(/\ last_call'.op = "modal"
        /\ last_call'.branch \in {"no_area", "invalid_context"}) =>
        /\ ~is_piloting'
        /\ piloted_light' = NoneVal
        /\ DOMAIN previous_view_state' = {}
        /\ scene_label' = NoneVal
        /\ last_call'.result = "FINISHED"
        /\ \E i \in 1 .. Len(handlers) :
              /\ handlers[i] = last_call'.light_object
              /\ handlers' = RemoveAt(handlers, i)]_vars

\* C14: the Start command is unavailable when no object is selected or the
\* selected object is not a light, and a Start that fails returns CANCELLED
\* and leaves the active flag, the target, the snapshot, the UI label,
\* every viewport field and the registered handlers as they were.
C14_FailedStartChangesNothing ==
    [][/\ \A obj \in OtherNames \cup CameraNames \cup {NoneVal} : ~PilotPoll(Cur, obj)
       /\ (last_call'.op = "invoke" /\ last_call'.result # "RUNNING_MODAL") =>
                /\ last_call'.result = "CANCELLED"
                /\ UNCHANGED <<is_piloting, piloted_light, previous_view_state,
                               scene_label, view, handlers, lights, objects>>]_vars

\* C15: a Tick after which the session is still active returned
\* PASS_THROUGH, never a result that keeps the event from the host, and its
\* handler stays registered.
C15_ContinuingTickPassesThrough ==
    [][(last_call'.op = "modal" /\ is_piloting') =>
        (last_call'.result = "PASS_THROUGH" /\ handlers' = handlers)]_vars

\* C16: the Exit command runs only while the active flag is true and
\* changes nothing but that flag, which it sets to false: the viewport, the
\* snapshot, the target, the UI label, the lights and the handlers are as
\* before; a session's state is cleared only by a modal call.
C16_ExitOnlyClearsFlag ==
    [][/\ ExitPilot =>
            /\ is_piloting /\ ~is_piloting'
            /\ UNCHANGED <<piloted_light, previous_view_state, scene_label,
                           handlers, view, view_matrix, objects, lights>>
       /\ (~Idle(Cur) /\ Idle(Cur)') => last_call'.op = "modal"]_vars

\* C16 witness: the Exit command has just run; the flag is false and the
\* target, the label, the snapshot and the handler are still there.
C16_Witness ==
    /\ exit_pending /\ last_call = NoCall /\ stops = 0
    /\ ~is_piloting
    /\ piloted_light = "Key" /\ scene_label = "Key"
    /\ DOMAIN previous_view_state = ViewKeys
    /\ handlers = <<"Key">>
    /\ view.view_distance = PilotDistance

\* C17: a Tick that terminates because the active flag is false or the
\* area is not a 3D viewport performs Stop() and writes nothing to any
\* light; a Tick that terminates otherwise does so on the cancel key press
\* and has written the eye and forward axis of the view matrix as it was
\* before Stop() restored the view, which is the light's transform after
\* the Tick.
C17_TickOrdering ==
    [][(/\ last_call'.op = "modal"
        /\ last_call'.branch \in
              {"inactive", "no_area", "invalid_context", "cancel"}) =>
        /\ Idle(Cur)'
        /\ IF last_call'.branch # "cancel"
           THEN lights' = lights
           ELSE LET n == last_call'.light_object
                    quat == to_track_quat(ViewForward(view_matrix))
                IN  /\ lights'[n].location = ViewerLocation(view_matrix)
                    /\ lights[n].type \in {"SUN", "SPOT", "AREA"} =>
                          IF lights[n].rotation_mode = "QUATERNION"
                          THEN lights'[n].rotation_quaternion = quat
                          ELSE /\ lights[n].rotation_mode \in EulerOrders
                               /\ lights'[n].rotation_euler =
                                      to_euler(quat, lights[n].rotation_mode)
                    /\ \A k \in RestoredKeys(Cur) :
                          view'[k] = previous_view_state[k]]_vars

\* C18: in every reachable state, if the active flag is true then the target
\* light is set, the UI label holds its name, the snapshot is not empty and
\* a modal handler bound to that name is registered.
C18_ActiveImpliesBound ==
    is_piloting =>
        /\ piloted_light # NoneVal
        /\ scene_label = piloted_light
        /\ DOMAIN previous_view_state # {}
        /\ \E i \in 1 .. Len(handlers) : handlers[i] = piloted_light

\* C19: in every reachable state, if no modal handler is registered then
\* the session is Idle: the active flag is false, the target is cleared, the
\* snapshot is empty and the UI label is absent.
C19_NoLoopImpliesIdle ==
    handlers = <<>> =>
        /\ ~is_piloting
        /\ piloted_light = NoneVal
        /\ DOMAIN previous_view_state = {}
        /\ scene_label = NoneVal

=============================================================================
